---- MODULE Spec2Model ----
(***************************************************************************)
(* Cart / order / checkout data flow of the shop controllers.             *)
(* Every request handler is an async function: it runs synchronously up   *)
(* to an `await`, and other requests may run while it is suspended. Each  *)
(* action below is one such synchronous segment, ending at the next await *)
(* (or at the response). An awaited storage / payment call either         *)
(* resolves (ok = TRUE) or rejects (ok = FALSE).                          *)
(***************************************************************************)
EXTENDS Integers, Sequences, FiniteSets, TLC

VARIABLES
    catalog,       \* Product collection: productId -> document or NoDoc
    cart,          \* persisted user.cart.items: user -> sequence of entries
    orders,        \* Order collection, in insertion order
    sessions,      \* payment sessions the payment service has created
    orderSession,  \* per order: totalSum of the purchaser's latest session
                   \* when the completion request of the order began
                   \* (NoSession if there was none)
    files,         \* data/invoices: names of the invoice files written
    req,           \* request slot -> the handler invocation running in it
    res,           \* the answer the last step sent (Idle when it sent none)
    started,       \* number of requests started so far
    limit          \* number of requests the run goes up to

vars == <<catalog, cart, orders, sessions, orderSession, files, req, res,
          started, limit>>

----------------------------------------------------------------------------
(* Bounds and fixed sets *)

MaxRequests == 3
MaxCheckoutRequests == 4

Users == {"u1", "u2"}
Products == {"p1", "p2"}
Reqs == {1, 2}

NoDoc == [none |-> TRUE]
NoSession == [none |-> TRUE]

Email(u) == IF u = "u1" THEN "u1@shop" ELSE "u2@shop"

InitDoc(p) ==
    IF p = "p1"
    THEN [title |-> "Book", imageUrl |-> "/img/book", price |-> 10, description |-> "a book"]
    ELSE [title |-> "Pen", imageUrl |-> "/img/pen", price |-> 5, description |-> "a pen"]

\* request bodies of postEditProduct
EditInputs ==
    { [title |-> "Book 2nd ed.", imageUrl |-> "/img/book2", price |-> 12, description |-> "a newer book"] }

----------------------------------------------------------------------------
(* The request record; every handler fills the fields it uses. A slot    *)
(* that runs no request holds Idle.                                       *)

Idle ==
    [kind |-> "none", pc |-> "done", user |-> "u1", prodId |-> "p1",
     orderId |-> 0, product |-> NoDoc, newQty |-> 1, input |-> NoDoc,
     products |-> <<>>, totalSum |-> 0, session |-> NoSession,
     headers |-> {}, body |-> <<>>, resp |-> "none"]

\* a new request takes the first slot that holds no running request
Free(r) ==
    /\ req[r].pc = "done"
    /\ \A r2 \in Reqs : r2 < r => req[r2].pc # "done"
    /\ started < limit

Begin(kind, u) == [Idle EXCEPT !.kind = kind, !.user = u]

\* the request is over: its locals are gone, the answer remains
Finish(l, resp) == [Idle EXCEPT !.resp = resp]

\* slot r goes on as l2; a finished request leaves the slot and sends its
\* answer
Put(r, l2) ==
    /\ req' = [req EXCEPT ![r] = IF l2.pc = "done" THEN Idle ELSE l2]
    /\ res' = IF l2.pc = "done" THEN l2 ELSE Idle
    /\ limit' = limit

\* catch (err) { error.httpStatusCode = 500; return next(error); }
\* (err names the call that rejected or threw)
Error500(l, err) == Finish(l, "500: " \o err)

\* catch (err) { console.log(err); } : no response is sent
Logged(l) == Finish(l, "none")

----------------------------------------------------------------------------
(* Sequence helpers *)

RECURSIVE SumSeq(_)
SumSeq(s) == IF s = <<>> THEN 0 ELSE Head(s) + SumSeq(Tail(s))

IndexOf(items, p) ==
    LET hits == {i \in 1..Len(items) : items[i].productId = p}
    IN  IF hits = {} THEN 0 ELSE CHOOSE i \in hits : \A j \in hits : i <= j

\* total quantity of product p over all entries of a cart
Qty(items, p) ==
    SumSeq([i \in 1..Len(items) |->
              IF items[i].productId = p THEN items[i].quantity ELSE 0])

Entries(items, p) == Cardinality({i \in 1..Len(items) : items[i].productId = p})

----------------------------------------------------------------------------
(* User model: cart methods *)

\* user.addToCart(product): increment the entry of the product, or append
\* a new entry with quantity 1; one atomic write of the cart document.
AddToCart(items, p) ==
    LET i == IndexOf(items, p)
    IN  IF i > 0
        THEN [items EXCEPT ![i].quantity = @ + 1]
        ELSE Append(items, [productId |-> p, quantity |-> 1])

\* user.deleteItemFromCart(productId): drop the matching entry, if any
DeleteItemFromCart(items, p) ==
    SelectSeq(items, LAMBDA e : e.productId # p)

\* user.clearCart(): empty the item collection
ClearCart(items) == <<>>

\* cart.addProduct(product, {through: {quantity}}): set the quantity of
\* the (cart, product) row, creating the row when it does not exist
SetQuantity(items, p, q) ==
    LET i == IndexOf(items, p)
    IN  IF i > 0
        THEN [items EXCEPT ![i].quantity = q]
        ELSE Append(items, [productId |-> p, quantity |-> q])

----------------------------------------------------------------------------
Init ==
    /\ catalog = [p \in Products |-> InitDoc(p)]
    /\ cart = [u \in Users |-> <<>>]
    /\ orders = <<>>
    /\ sessions = <<>>
    /\ orderSession = <<>>
    /\ files = {}
    /\ req = [r \in Reqs |-> Idle]
    /\ res = Idle
    /\ started = 0
    /\ limit = MaxRequests

----------------------------------------------------------------------------
(* postCart, document-store version: Product.findById, then addToCart *)

postCart_findById(r, u, p, ok) ==
    /\ Free(r)
    /\ started' = started + 1
    /\ Put(r,
               IF ok
               THEN [Begin("postCart", u) EXCEPT
                      !.pc = "addToCart", !.prodId = p, !.product = catalog[p]]
               ELSE Error500(Begin("postCart", u), "Product.findById"))
    /\ UNCHANGED <<catalog, cart, orders, sessions, orderSession, files>>

\* addToCart(null) throws on product._id, which the catch turns into a 500
postCart_addToCart(r, ok) ==
    LET l == req[r] IN
    /\ l.kind = "postCart" /\ l.pc = "addToCart"
    /\ IF ok /\ l.product # NoDoc
       THEN /\ cart' = [cart EXCEPT ![l.user] = AddToCart(@, l.prodId)]
            /\ Put(r, Finish(l, "redirect /cart"))
       ELSE /\ cart' = cart
            /\ Put(r, Error500(l, "addToCart"))
    /\ UNCHANGED <<catalog, orders, sessions, orderSession, files, started>>

----------------------------------------------------------------------------
(* postCart, relational version: read the row's quantity, then write     *)
(* quantity + 1 (or 1) back with cart.addProduct                         *)
(* (part of SpecSql)                                                      *)

postCartSql_getProducts(r, u, p, ok) ==
    /\ Free(r)
    /\ started' = started + 1
    /\ LET l0 == [Begin("postCartSql", u) EXCEPT !.prodId = p]
           present == IndexOf(cart[u], p) > 0
       IN  Put(r,
                   IF ~ok THEN Logged(l0)
                   ELSE IF present
                   THEN [l0 EXCEPT !.pc = "addProduct", !.product = catalog[p],
                                 !.newQty = Qty(cart[u], p) + 1]
                   ELSE [l0 EXCEPT !.pc = "findByPk"])
    /\ UNCHANGED <<catalog, cart, orders, sessions, orderSession, files>>

postCartSql_findByPk(r, ok) ==
    LET l == req[r] IN
    /\ l.kind = "postCartSql" /\ l.pc = "findByPk"
    /\ Put(r,
               IF ok /\ catalog[l.prodId] # NoDoc
               THEN [l EXCEPT !.pc = "addProduct", !.product = catalog[l.prodId]]
               ELSE Logged(l))
    /\ UNCHANGED <<catalog, cart, orders, sessions, orderSession, files, started>>

postCartSql_addProduct(r, ok) ==
    LET l == req[r] IN
    /\ l.kind = "postCartSql" /\ l.pc = "addProduct"
    /\ IF ok
       THEN /\ cart' = [cart EXCEPT ![l.user] = SetQuantity(@, l.prodId, l.newQty)]
            /\ Put(r, Finish(l, "redirect /cart"))
       ELSE /\ cart' = cart
            /\ Put(r, Logged(l))
    /\ UNCHANGED <<catalog, orders, sessions, orderSession, files, started>>

----------------------------------------------------------------------------
(* postCartDeleteProduct *)

postCartDeleteProduct(r, u, p, ok) ==
    /\ Free(r)
    /\ started' = started + 1
    /\ LET l0 == [Begin("postCartDeleteProduct", u) EXCEPT !.prodId = p] IN
       IF ok
       THEN /\ cart' = [cart EXCEPT ![u] = DeleteItemFromCart(@, p)]
            /\ Put(r, Finish(l0, "redirect /cart"))
       ELSE /\ cart' = cart
            /\ Put(r, Error500(l0, "deleteItemFromCart"))
    /\ UNCHANGED <<catalog, orders, sessions, orderSession, files>>

----------------------------------------------------------------------------
(* Checkout: reading the cart *)

\* req.user.populate('cart.items.productId'): every entry's product
\* reference is replaced by the product's document (null when the product
\* no longer exists)
Populate(items) ==
    [i \in 1..Len(items) |->
        [quantity |-> items[i].quantity,
         productId |-> IF catalog[items[i].productId] = NoDoc
                       THEN NoDoc
                       ELSE [_id |-> items[i].productId] @@ catalog[items[i].productId]]]

\* reading a field of a null productId throws a TypeError
Dangling(populated) == \E i \in 1..Len(populated) : populated[i].productId = NoDoc

NewOrder(u, products) ==
    [user |-> [email |-> Email(u), userId |-> u], products |-> products]

----------------------------------------------------------------------------------------------------------------------------------------
(* Faulty variants of the completion handlers, used to test the properties *)

\* postOrder with clearCart not ordered after a successful save: the cart is
\* cleared although order.save() rejected
postOrder_clearsOnSaveFailure(l, u, ok) ==
    LET same == [l |-> l, cart |-> cart[u], orders |-> orders] IN
    IF l.pc = "done"
    THEN LET l0 == Begin("postOrder", u)
             populated == Populate(cart[u])
         IN  IF ~ok
             THEN [same EXCEPT !.l = Error500(l0, "populate")]
             ELSE IF Dangling(populated)
             THEN [same EXCEPT !.l = Error500(l0, "TypeError")]
             ELSE [same EXCEPT !.l =
                     [l0 EXCEPT !.pc = "save",
                                !.products =
                                   [i \in 1..Len(populated) |->
                                      [quantity |-> populated[i].quantity,
                                       productData |-> populated[i].productId]]]]
    ELSE IF l.pc = "save"
    THEN IF ok
         THEN [same EXCEPT !.l = [l EXCEPT !.pc = "clearCart"],
                           !.orders = Append(orders, NewOrder(u, l.products))]
         ELSE [same EXCEPT !.l = Error500(l, "order.save"), !.cart = ClearCart(cart[u])]
    ELSE IF ok
         THEN [same EXCEPT !.l = Finish(l, "redirect /orders"),
                           !.cart = ClearCart(cart[u])]
         ELSE [same EXCEPT !.l = Error500(l, "clearCart")]

\* getCheckoutSuccess that answers without having emptied the cart
getCheckoutSuccess_keepsCart(l, u, ok) ==
    LET same == [l |-> l, cart |-> cart[u], orders |-> orders] IN
    IF l.pc = "done"
    THEN LET l0 == Begin("getCheckoutSuccess", u)
             populated == Populate(cart[u])
         IN  IF ~ok
             THEN [same EXCEPT !.l = Error500(l0, "populate")]
             ELSE IF Dangling(populated)
             THEN [same EXCEPT !.l = Error500(l0, "TypeError")]
             ELSE [same EXCEPT !.l =
                     [l0 EXCEPT !.pc = "save",
                                !.products =
                                   [i \in 1..Len(populated) |->
                                      [quantity |-> populated[i].quantity,
                                       productData |-> populated[i].productId]]]]
    ELSE IF l.pc = "save"
    THEN IF ok
         THEN [same EXCEPT !.l = [l EXCEPT !.pc = "clearCart"],
                           !.orders = Append(orders, NewOrder(u, l.products))]
         ELSE [same EXCEPT !.l = Error500(l, "order.save")]
    ELSE IF ok
         THEN [same EXCEPT !.l = Finish(l, "redirect /orders")]
         ELSE [same EXCEPT !.l = Error500(l, "clearCart")]

\* getCheckoutSuccess that clears the cart without persisting the Order
getCheckoutSuccess_noOrder(l, u, ok) ==
    LET same == [l |-> l, cart |-> cart[u], orders |-> orders] IN
    IF l.pc = "done"
    THEN LET l0 == Begin("getCheckoutSuccess", u)
             populated == Populate(cart[u])
         IN  IF ~ok
             THEN [same EXCEPT !.l = Error500(l0, "populate")]
             ELSE IF Dangling(populated)
             THEN [same EXCEPT !.l = Error500(l0, "TypeError")]
             ELSE [same EXCEPT !.l =
                     [l0 EXCEPT !.pc = "save",
                                !.products =
                                   [i \in 1..Len(populated) |->
                                      [quantity |-> populated[i].quantity,
                                       productData |-> populated[i].productId]]]]
    ELSE IF l.pc = "save"
    THEN IF ok
         THEN [same EXCEPT !.l = [l EXCEPT !.pc = "clearCart"]]
         ELSE [same EXCEPT !.l = Error500(l, "order.save")]
    ELSE IF ok
         THEN [same EXCEPT !.l = Finish(l, "redirect /orders"),
                           !.cart = ClearCart(cart[u])]
         ELSE [same EXCEPT !.l = Error500(l, "clearCart")]

----------------
(* postOrder: one synchronous segment of the handler, from the state the  *)
(* request l is in. The result is the request afterwards, the user's cart *)
(* afterwards and the Order collection afterwards.                        *)

postOrder(l, u, ok) ==
    LET same == [l |-> l, cart |-> cart[u], orders |-> orders] IN
    IF l.pc = "done"
    THEN LET l0 == Begin("postOrder", u)
             populated == Populate(cart[u])
         IN  IF ~ok
             THEN [same EXCEPT !.l = Error500(l0, "populate")]
             ELSE IF Dangling(populated)
             THEN [same EXCEPT !.l = Error500(l0, "TypeError")]
             ELSE [same EXCEPT !.l =
                     [l0 EXCEPT !.pc = "save",
                                !.products =
                                   [i \in 1..Len(populated) |->
                                      [quantity |-> populated[i].quantity,
                                       productData |-> populated[i].productId]]]]
    ELSE IF l.pc = "save"
    THEN IF ok
         THEN [same EXCEPT !.l = [l EXCEPT !.pc = "clearCart"],
                           !.orders = Append(orders, NewOrder(u, l.products))]
         ELSE [same EXCEPT !.l = Error500(l, "order.save")]
    ELSE IF ok
         THEN [same EXCEPT !.l = Finish(l, "redirect /orders"),
                           !.cart = ClearCart(cart[u])]
         ELSE [same EXCEPT !.l = Error500(l, "clearCart")]

(* getCheckoutSuccess: the same, for the success callback of the payment *)

getCheckoutSuccess(l, u, ok) ==
    LET same == [l |-> l, cart |-> cart[u], orders |-> orders] IN
    IF l.pc = "done"
    THEN LET l0 == Begin("getCheckoutSuccess", u)
             populated == Populate(cart[u])
         IN  IF ~ok
             THEN [same EXCEPT !.l = Error500(l0, "populate")]
             ELSE IF Dangling(populated)
             THEN [same EXCEPT !.l = Error500(l0, "TypeError")]
             ELSE [same EXCEPT !.l =
                     [l0 EXCEPT !.pc = "save",
                                !.products =
                                   [i \in 1..Len(populated) |->
                                      [quantity |-> populated[i].quantity,
                                       productData |-> populated[i].productId]]]]
    ELSE IF l.pc = "save"
    THEN IF ok
         THEN [same EXCEPT !.l = [l EXCEPT !.pc = "clearCart"],
                           !.orders = Append(orders, NewOrder(u, l.products))]
         ELSE [same EXCEPT !.l = Error500(l, "order.save")]
    ELSE IF ok
         THEN [same EXCEPT !.l = Finish(l, "redirect /orders"),
                           !.cart = ClearCart(cart[u])]
         ELSE [same EXCEPT !.l = Error500(l, "clearCart")]

\* the session the payment service created last for user u, if any
LatestSession(u) ==
    LET mine == {i \in 1..Len(sessions) : sessions[i].user = u}
    IN  IF mine = {} THEN NoSession
        ELSE [totalSum |-> sessions[CHOOSE i \in mine : \A j \in mine : j <= i].totalSum]

\* the effect of one segment of a completion handler on the state; the
\* request remembers the session that preceded it
Apply(r, u, out) ==
    /\ Put(r, IF req[r].pc = "done" /\ out.l.pc # "done"
              THEN [out.l EXCEPT !.session = LatestSession(u)]
              ELSE out.l)
    /\ cart' = [cart EXCEPT ![u] = out.cart]
    /\ orders' = out.orders
    /\ orderSession' = IF Len(out.orders) > Len(orders)
                       THEN Append(orderSession, req[r].session)
                       ELSE orderSession
    /\ UNCHANGED <<catalog, sessions, files>>

postOrder_populate(r, u, ok) ==
    /\ Free(r)
    /\ started' = started + 1
    /\ Apply(r, u, postOrder(req[r], u, ok))

postOrder_save(r, ok) ==
    /\ req[r].kind = "postOrder" /\ req[r].pc = "save"
    /\ Apply(r, req[r].user, postOrder(req[r], req[r].user, ok))
    /\ UNCHANGED started

postOrder_clearCart(r, ok) ==
    /\ req[r].kind = "postOrder" /\ req[r].pc = "clearCart"
    /\ Apply(r, req[r].user, postOrder(req[r], req[r].user, ok))
    /\ UNCHANGED started

getCheckoutSuccess_populate(r, u, ok) ==
    /\ Free(r)
    /\ started' = started + 1
    /\ Apply(r, u, getCheckoutSuccess(req[r], u, ok))

getCheckoutSuccess_save(r, ok) ==
    /\ req[r].kind = "getCheckoutSuccess" /\ req[r].pc = "save"
    /\ Apply(r, req[r].user, getCheckoutSuccess(req[r], req[r].user, ok))
    /\ UNCHANGED started

getCheckoutSuccess_clearCart(r, ok) ==
    /\ req[r].kind = "getCheckoutSuccess" /\ req[r].pc = "clearCart"
    /\ Apply(r, req[r].user, getCheckoutSuccess(req[r], req[r].user, ok))
    /\ UNCHANGED started

----------------------------------------------------------------------------
(* getCheckout: total of the cart, then a payment session for it *)

TotalSum(populated) ==
    SumSeq([i \in 1..Len(populated) |->
              populated[i].quantity * populated[i].productId.price])

LineItems(populated) ==
    [i \in 1..Len(populated) |->
        [name |-> populated[i].productId.title,
         description |-> populated[i].productId.description,
         amount |-> populated[i].productId.price * 100,
         currency |-> "usd",
         quantity |-> populated[i].quantity]]

getCheckout_populate(r, u, ok) ==
    /\ Free(r)
    /\ started' = started + 1
    /\ LET l0 == Begin("getCheckout", u)
           populated == Populate(cart[u])
       IN  Put(r,
                   IF ~ok THEN Error500(l0, "populate")
                   ELSE IF Dangling(populated) THEN Error500(l0, "TypeError")
                   ELSE [l0 EXCEPT !.pc = "createSession",
                                 !.products = populated,
                                 !.totalSum = TotalSum(populated)])
    /\ UNCHANGED <<catalog, cart, orders, sessions, orderSession, files>>

\* stripe.checkout.sessions.create; the session is kept with the total the
\* handler computed for it. The payment service answers a request without
\* line items with an error.
getCheckout_createSession(r, ok) ==
    LET l == req[r] IN
    /\ l.kind = "getCheckout" /\ l.pc = "createSession"
    /\ IF ok /\ l.products # <<>>
       THEN /\ sessions' = Append(sessions,
                              [user |-> l.user,
                               line_items |-> LineItems(l.products),
                               totalSum |-> l.totalSum])
            /\ Put(r,
                       Finish(l, "render shop/checkout"))
       ELSE /\ sessions' = sessions
            /\ Put(r, Error500(l, "sessions.create"))
    /\ UNCHANGED <<catalog, cart, orders, orderSession, files, started>>

----------------------------------------------------------------------------
(* getInvoice *)

\* totalPrice accumulated over order.products
InvoiceTotal(order) ==
    SumSeq([i \in 1..Len(order.products) |->
              order.products[i].productData.price * order.products[i].quantity])

InvoiceLines(order) ==
    <<"Invoice">>
    \o [i \in 1..Len(order.products) |->
          [product |-> order.products[i].productData.title,
           quantity |-> order.products[i].quantity,
           price |-> order.products[i].productData.price]]
    \o <<[total |-> InvoiceTotal(order)]>>

PdfHeaders == {"Content-Type: application/pdf", "Content-Disposition: inline"}

\* getInvoice without the ownership check
getInvoice_noOwnerCheck(r, u, oid, ok) ==
    /\ Free(r)
    /\ started' = started + 1
    /\ LET l0 == [Begin("getInvoice", u) EXCEPT !.orderId = oid]
           answer(resp) == [l0 EXCEPT !.pc = "done", !.resp = resp]
       IN
       IF ~ok
       THEN /\ Put(r, answer("next(err)"))
            /\ files' = files
       ELSE IF oid \notin 1..Len(orders)
       THEN /\ Put(r, answer("next(No order found)"))
            /\ files' = files
       ELSE /\ Put(r,
                       [answer("pdf") EXCEPT !.headers = PdfHeaders,
                                             !.body = InvoiceLines(orders[oid])])
            /\ files' = files \cup {oid}
    /\ UNCHANGED <<catalog, cart, orders, sessions, orderSession>>

\* Order.findById is the only await; the checks, the headers, the file and
\* the document follow it synchronously
getInvoice(r, u, oid, ok) ==
    /\ Free(r)
    /\ started' = started + 1
    /\ LET l0 == [Begin("getInvoice", u) EXCEPT !.orderId = oid]
           answer(resp) == [l0 EXCEPT !.pc = "done", !.resp = resp]
       IN
       IF ~ok
       THEN /\ Put(r, answer("next(err)"))
            /\ files' = files
       ELSE IF oid \notin 1..Len(orders)
       THEN /\ Put(r, answer("next(No order found)"))
            /\ files' = files
       ELSE IF orders[oid].user.userId # u
       THEN /\ Put(r, answer("next(Unauthorized)"))
            /\ files' = files
       ELSE /\ Put(r,
                       [answer("pdf") EXCEPT !.headers = PdfHeaders,
                                             !.body = InvoiceLines(orders[oid])])
            /\ files' = files \cup {oid}
    /\ UNCHANGED <<catalog, cart, orders, sessions, orderSession>>

----------------------------------------------------------------------------
(* Admin: postEditProduct, postDeleteProduct *)

\* assigning to a field of a null product throws; the catch only logs
postEditProduct_findById(r, p, input, ok) ==
    /\ Free(r)
    /\ started' = started + 1
    /\ LET l0 == [Begin("postEditProduct", Idle.user) EXCEPT !.prodId = p] IN
       Put(r,
               IF ok /\ catalog[p] # NoDoc
               THEN [l0 EXCEPT !.pc = "save", !.input = input]
               ELSE Logged(l0))
    /\ UNCHANGED <<catalog, cart, orders, sessions, orderSession, files>>

\* postEditProduct whose orders share the product's document: the edit
\* shows in the line items of the orders that contain the product
postEditProduct_save_sharedDoc(r, ok) ==
    LET l == req[r] IN
    /\ l.kind = "postEditProduct" /\ l.pc = "save"
    /\ IF ok
       THEN /\ catalog' = [catalog EXCEPT ![l.prodId] = IF @ = NoDoc THEN NoDoc ELSE l.input]
            /\ orders' = [i \in 1..Len(orders) |->
                            [orders[i] EXCEPT !.products =
                               [j \in 1..Len(orders[i].products) |->
                                  IF orders[i].products[j].productData._id = l.prodId
                                  THEN [orders[i].products[j] EXCEPT
                                          !.productData = [_id |-> l.prodId] @@ l.input]
                                  ELSE orders[i].products[j]]]]
            /\ Put(r, Finish(l, "redirect /admin/products"))
       ELSE /\ catalog' = catalog
            /\ orders' = orders
            /\ Put(r, Logged(l))
    /\ UNCHANGED <<cart, sessions, orderSession, files, started>>

\* product.save() updates the stored document; a document deleted in the
\* meantime is not created again
postEditProduct_save(r, ok) ==
    LET l == req[r] IN
    /\ l.kind = "postEditProduct" /\ l.pc = "save"
    /\ IF ok
       THEN /\ catalog' = [catalog EXCEPT ![l.prodId] = IF @ = NoDoc THEN NoDoc ELSE l.input]
            /\ Put(r, Finish(l, "redirect /admin/products"))
       ELSE /\ catalog' = catalog
            /\ Put(r, Logged(l))
    /\ UNCHANGED <<cart, orders, sessions, orderSession, files, started>>

postDeleteProduct(r, p, ok) ==
    /\ Free(r)
    /\ started' = started + 1
    /\ catalog' = IF ok THEN [catalog EXCEPT ![p] = NoDoc] ELSE catalog
    /\ Put(r,
               Finish([Begin("postDeleteProduct", Idle.user) EXCEPT !.prodId = p],
                    "redirect /admin/products"))
    /\ UNCHANGED <<cart, orders, sessions, orderSession, files>>

----------------------------------------------------------------------------
Next ==
    \E r \in Reqs, ok \in BOOLEAN :
        \/ \E u \in Users, p \in Products : postCart_findById(r, u, p, ok)
        \/ postCart_addToCart(r, ok)
        \/ \E u \in Users, p \in Products : postCartDeleteProduct(r, u, p, ok)
        \/ \E u \in Users : postOrder_populate(r, u, ok)
        \/ postOrder_save(r, ok)
        \/ postOrder_clearCart(r, ok)
        \/ \E u \in Users : getCheckoutSuccess_populate(r, u, ok)
        \/ getCheckoutSuccess_save(r, ok)
        \/ getCheckoutSuccess_clearCart(r, ok)
        \/ \E u \in Users : getCheckout_populate(r, u, ok)
        \/ getCheckout_createSession(r, ok)
        \/ \E u \in Users, oid \in 1..(Len(orders) + 1) : getInvoice(r, u, oid, ok)
        \/ \E p \in Products, input \in EditInputs : postEditProduct_findById(r, p, input, ok)
        \/ postEditProduct_save(r, ok)
        \/ \E p \in Products : postDeleteProduct(r, p, ok)

Spec == Init /\ [][Next]_vars

\* The relational version of postCart is the same route on the other
\* storage backend: its requests run among themselves, and nothing else
\* writes the cart.
NextSql ==
    \E r \in Reqs, ok \in BOOLEAN :
        \/ \E u \in Users, p \in Products : postCartSql_getProducts(r, u, p, ok)
        \/ postCartSql_findByPk(r, ok)
        \/ postCartSql_addProduct(r, ok)

SpecSql == Init /\ [][NextSql]_vars

\* One user's checkout among the cart mutations and product edits of a
\* longer run: add, remove, edit, create a session, complete.
Shopper == "u1"

InitCheckout ==
    /\ catalog = [p \in Products |-> InitDoc(p)]
    /\ cart = [u \in Users |-> <<>>]
    /\ orders = <<>>
    /\ sessions = <<>>
    /\ orderSession = <<>>
    /\ files = {}
    /\ req = [r \in Reqs |-> Idle]
    /\ res = Idle
    /\ started = 0
    /\ limit = MaxCheckoutRequests

NextCheckout ==
    \E r \in Reqs, ok \in BOOLEAN :
        \/ \E p \in Products : postCart_findById(r, Shopper, p, ok)
        \/ postCart_addToCart(r, ok)
        \/ \E p \in Products : postCartDeleteProduct(r, Shopper, p, ok)
        \/ getCheckout_populate(r, Shopper, ok)
        \/ getCheckout_createSession(r, ok)
        \/ getCheckoutSuccess_populate(r, Shopper, ok)
        \/ getCheckoutSuccess_save(r, ok)
        \/ getCheckoutSuccess_clearCart(r, ok)
        \/ \E p \in Products, input \in EditInputs : postEditProduct_findById(r, p, input, ok)
        \/ postEditProduct_save(r, ok)

SpecCheckout == InitCheckout /\ [][NextCheckout]_vars

----------------------------------------------------------------------------
(* Properties *)

Completion == {"postOrder", "getCheckoutSuccess"}
Checkout == Completion \cup {"getCheckout"}

\* A step changes one slot, or none when a request starts and is answered
\* in the same segment.
Stepped(r) == req'[r] # req[r]
Answered == started' # started /\ req' = req

\* the request that took the step, as it was before the step
Actor == IF \E r \in Reqs : Stepped(r)
         THEN req[CHOOSE r \in Reqs : Stepped(r)]
         ELSE Idle

\* the step is a segment of a checkout request (completion or getCheckout);
\* one that is answered in its first segment failed to read the cart
CheckoutStep ==
    \/ \E r \in Reqs : Stepped(r) /\ (req[r].kind \in Checkout \/ req'[r].kind \in Checkout)
    \/ Answered /\ res'.resp \in {"500: populate", "500: TypeError"}

CompletionStep ==
    \E r \in Reqs : Stepped(r) /\ (req[r].kind \in Completion \/ req'[r].kind \in Completion)

\* the request persisted its Order in an earlier segment
OrderAdded(l) == l.kind \in Completion /\ l.pc = "clearCart"

\* the step ends a request that was waiting, with the answer resp
Ends(resp) == Actor # Idle /\ res'.resp = resp

SaveFails ==
    Actor.kind \in Completion /\ Actor.pc = "save" /\ Ends("500: order.save")

Succeeds ==
    Actor.kind \in Completion /\ Actor.pc = "clearCart" /\ Ends("redirect /orders")

Fails ==
    /\ CheckoutStep
    /\ res'.resp \in {"500: populate", "500: TypeError", "500: order.save",
                      "500: clearCart", "500: sessions.create"}

OrdersOf(u) == {i \in 1..Len(orders) : orders[i].user.userId = u}
SessionsOf(u) == {i \in 1..Len(sessions) : sessions[i].user = u}

\* units of product p in the line items of an order under construction
Ordered(products, p) ==
    SumSeq([i \in 1..Len(products) |->
              IF products[i].productData._id = p THEN products[i].quantity ELSE 0])

\* C1: in postOrder and getCheckoutSuccess, when order.save() fails the
\* request ends with the error, the persisted cart and the orders are as
\* they were, and a completion request writes the cart only in its
\* clearCart segment, which it reaches only with its Order persisted.
C1_SaveFailureKeepsCart ==
    [][/\ SaveFails => /\ \A r \in Reqs : Stepped(r) => req'[r] = Idle
                     /\ cart' = cart
                     /\ orders' = orders
       /\ (CompletionStep /\ cart' # cart) =>
              /\ OrderAdded(Actor)
              /\ \E i \in 1..Len(orders) :
                    orders[i] = NewOrder(Actor.user, Actor.products)]_vars

\* a completion request failed at order.save() while the cart held items
C1_Witness ==
    /\ res.resp = "500: order.save"
    /\ \E u \in Users : cart[u] # <<>>

\* C2: checkout with an empty cart creates no Order and requests no
\* payment session: no Order has zero line items and no session was
\* created for zero line items.
C2_EmptyCartNoOrder ==
    /\ \A i \in 1..Len(orders) : orders[i].products # <<>>
    /\ \A i \in 1..Len(sessions) : sessions[i].line_items # <<>>

\* C3: the total of an Order (as getInvoice recomputes it) equals the
\* totalSum of the payment session the purchaser's checkout created,
\* whatever cart mutations and product edits ran in between.
C3_OrderTotalIsSessionTotal ==
    \A i \in 1..Len(orders) :
        orderSession[i] # NoSession =>
            InvoiceTotal(orders[i]) = orderSession[i].totalSum

\* C4: every Order is preceded by a payment session of the same user that
\* no earlier Order consumed: a user never has more Orders than sessions.
C4_OrderNeedsSession ==
    \A u \in Users : Cardinality(OrdersOf(u)) <= Cardinality(SessionsOf(u))

\* C5: every postCart call that answers with the redirect, overlapping
\* with other postCart calls or not, raises the quantity of its product in
\* the cart by exactly one and leaves exactly one entry for it, so that n
\* calls end with quantity n.
C5_NoLostIncrement ==
    [][(/\ Actor.kind \in {"postCart", "postCartSql"}
        /\ Actor.pc \in {"addToCart", "addProduct"}
        /\ Ends("redirect /cart"))
       => /\ Qty(cart'[Actor.user], Actor.prodId)
               = Qty(cart[Actor.user], Actor.prodId) + 1
          /\ Entries(cart'[Actor.user], Actor.prodId) = 1]_vars

C7_SameSideEffects ==
    \A r \in Reqs, ok \in BOOLEAN :
        LET l == req[r]
            sameAs(a, b) == /\ a.cart = b.cart
                            /\ a.orders = b.orders
                            /\ [a.l EXCEPT !.kind = "completion"]
                                 = [b.l EXCEPT !.kind = "completion"]
        IN  /\ l.pc = "done" =>
                  \A u \in Users :
                      sameAs(postOrder(l, u, ok), getCheckoutSuccess(l, u, ok))
            /\ (l.kind \in Completion /\ l.pc # "done") =>
                  sameAs(postOrder(l, l.user, ok), getCheckoutSuccess(l, l.user, ok))

\* both handlers have persisted an Order for a cart with items and wait
\* for clearCart
C7_Witness ==
    /\ req[1].kind = "postOrder" /\ req[1].pc = "clearCart"
    /\ req[2].kind = "getCheckoutSuccess" /\ req[2].pc = "clearCart"
    /\ req[1].products # <<>>

\* C8: a getInvoice request for an existing order by a user who does not
\* own it writes no invoice file, sets no PDF header, sends no PDF content
\* and is answered with an error.
C8_ForeignInvoiceRefused ==
    [][(/\ Answered
        /\ res'.kind = "getInvoice"
        /\ res'.orderId \in 1..Len(orders)
        /\ orders[res'.orderId].user.userId # res'.user)
       => /\ files' = files
          /\ res'.headers = {}
          /\ res'.body = <<>>
          /\ res'.resp \in {"next(Unauthorized)", "next(err)"}]_vars

\* an invoice request for another user's order was refused
C8_Witness ==
    /\ res.kind = "getInvoice"
    /\ res.resp = "next(Unauthorized)"
    /\ res.orderId \in 1..Len(orders)
    /\ orders[res.orderId].products # <<>>
    /\ orders[res.orderId].user.userId # res.user

\* C9: no step removes or changes a persisted Order: the Order collection
\* only grows at its end.
C9_OrdersAppendOnly ==
    [][/\ Len(orders') >= Len(orders)
       /\ \A i \in 1..Len(orders) : orders'[i] = orders[i]]_vars

\* an Order holds a product that has since been edited or deleted
C9_Witness ==
    \E i \in 1..Len(orders) :
        \E j \in 1..Len(orders[i].products) :
            LET d == orders[i].products[j].productData
            IN  catalog[d._id] = NoDoc \/ catalog[d._id].price # d.price

\* C10: when a completion request clears the cart, every unit in the
\* persisted cart at that moment is in the Order the request created.
C10_ClearedUnitsAreOrdered ==
    [][Succeeds =>
         \A p \in Products :
             Qty(cart[Actor.user], p) <= Ordered(Actor.products, p)]_vars

====
